---- MODULE Spec2Model ----
(***************************************************************************)
(* Token-gated upload admission of the guest-photo backend.                *)
(*                                                                         *)
(* The HTTP server (first server file of the repository, the one with     *)
(* validateToken and the /refresh route) runs against the document store   *)
(* of googleCloudDatabase.js; subscriptions and usage live in the SQLite   *)
(* Database class that StripeService instantiates.  The model writes the   *)
(* token attributes with the names the route handlers read (user_id,       *)
(* max_uploads, expires_at).  Strings are sequences of one-character       *)
(* strings, so that split('.') and length are computed, not assumed.       *)
(***************************************************************************)
EXTENDS Integers, Sequences, FiniteSets, TLC

(* ---------------- bounds of the model ---------------- *)
MaxUsers == 1
MaxTokens == 1
MaxReq == 2
MaxTime == 3
MaxExpiresIn == 1
\* createToken stores `maxUploads: 50, // default`; the model scales the
\* default down, the handler only ever compares a count against it.
DefaultMaxUploads == 1
\* upload.array('photos', 50) caps a batch; the model lets a batch be one
\* file longer than a token's capacity so that an oversized batch exists.
MaxBatch == DefaultMaxUploads + 1
MaxSubs == 2
\* every file of the model has this many bytes
FileBytes == 50
\* cap on the usage_tracking.file_count the model follows
MaxFileCount == 11
\* callers that run the quota check and the usage increment concurrently
MaxAdmits == 2
\* upload entries of tokens.json
MaxRecords == 2
\* firings of the worker's timer the model follows
MaxPasses == 2
\* concurrent calls of createUserSubscription
MaxCheckouts == 2
\* const CACHE_TTL = 5 * 60 * 1000, in ticks of the model's clock
CACHE_TTL == 2
\* last tick of the clock of the session cache
MaxCacheTime == 7

Null == 0

(* ---------------- strings ---------------- *)
Repeat(c, n) == [i \in 1..n |-> c]

\* Buffer.toString('hex') / digest('hex'): two hex digits for every byte.
HexChars == <<"0", "1", "2", "3", "4", "5", "6", "7",
              "8", "9", "a", "b", "c", "d", "e", "f">>
toStringHex(bytes) ==
  [i \in 1..(2 * Len(bytes)) |->
     LET b == bytes[(i + 1) \div 2]
     IN  IF i % 2 = 1 THEN HexChars[(b \div 16) + 1] ELSE HexChars[(b % 16) + 1]]

\* crypto.randomBytes(32) and the 32 bytes of the HMAC-SHA256 digest: the model
\* draws each from a small sample of byte strings.
ByteSample == <<170, 187, 204, 221>>
RandomBytes == { Repeat(ByteSample[k], 32) : k \in 1..(MaxTokens + 1) }
Digests == { Repeat(0, 32) }

\* A JavaScript value as validateToken may receive it: a string carries its
\* UTF-16 code units, any other value only its type.
Str(s) == [type |-> "string", str |-> s]
NotAString(t) == [type |-> t, str |-> <<>>]

RECURSIVE Split(_, _)
\* String.prototype.split(sep) for a one-character separator.
Split(s, sep) ==
  IF \A i \in 1..Len(s) : s[i] # sep
  THEN <<s>>
  ELSE LET k == CHOOSE i \in 1..Len(s) :
                   s[i] = sep /\ \A j \in 1..(i - 1) : s[j] # sep
       IN  <<SubSeq(s, 1, k - 1)>> \o Split(SubSeq(s, k + 1, Len(s)), sep)

\* a plausible slip: the number of parts is not looked at, only the first two
validateTokenFirstTwo(token) ==
  IF token.type # "string" \/ Len(token.str) = 0
  THEN FALSE
  ELSE LET parts == Split(token.str, ".")
       IN  Len(parts) >= 2 /\ Len(parts[1]) = 64 /\ Len(parts[2]) = 16

\* a plausible slip: the two parts are also required to be hex digits
validateTokenHexOnly(token) ==
  IF token.type # "string" \/ Len(token.str) = 0
  THEN FALSE
  ELSE LET parts == Split(token.str, ".")
       IN  /\ Len(parts) = 2 /\ Len(parts[1]) = 64 /\ Len(parts[2]) = 16
           /\ \A i \in 1..Len(token.str) :
                 token.str[i] = "." \/ \E h \in 1..16 : HexChars[h] = token.str[i]

\* !token is true of the empty string and of undefined/null; every value
\* that is not a string fails the typeof test anyway.
validateToken(token) ==
  IF token.type # "string" \/ Len(token.str) = 0
  THEN FALSE
  ELSE LET parts == Split(token.str, ".")
       IN  IF Len(parts) # 2
           THEN FALSE
           ELSE IF Len(parts[1]) # 64 \/ Len(parts[2]) # 16
                THEN FALSE
                ELSE TRUE

\* a plausible slip: the whole digest is appended, not its first 16 digits
secureTokenFullDigest(rnd, sig) ==
  toStringHex(rnd) \o <<".">> \o toStringHex(sig)

\* tokenString = randomBytes(32).toString('hex'); signedToken = digest('hex');
\* `${tokenString}.${signedToken.substring(0, 16)}`
secureToken(rnd, sig) ==
  LET tokenString == toStringHex(rnd)
      signedToken == toStringHex(sig)
  IN  tokenString \o <<".">> \o SubSeq(signedToken, 1, 16)

MintedStrings == { secureToken(rnd, sig) : rnd \in RandomBytes, sig \in Digests }
\* a link that lost its signature suffix
MalformedStrings == { Repeat("a", 64) }
PresentedStrings == MintedStrings \cup MalformedStrings

UserDigits == <<"1", "2", "3", "4">>
Users == { <<"u", UserDigits[k]>> : k \in 1..MaxUsers }

VARIABLES now, tokens, uploads, disk, reqs,
          user_subscriptions, usage_tracking, usageCheck, admissions,
          presented, origin, verdict,
          tokensFile, uploadsDir, bucket, tempDir, driveFiles, passes,
          relayMode, driveReady, driveFolderId, folders,
          userCache, session, served, checkouts

vars == <<now, tokens, uploads, disk, reqs,
          user_subscriptions, usage_tracking, usageCheck, admissions,
          presented, origin, verdict,
          tokensFile, uploadsDir, bucket, tempDir, driveFiles, passes,
          relayMode, driveReady, driveFolderId, folders,
          userCache, session, served, checkouts>>

\* the session cache, who is logged in, and what autoLogin last put in req.user
cacheVars == <<userCache, session, served>>

\* tokens.json, the three places a file can be, the files of the Drive
\* folder, the passes of the relay, and how the worker was set up
relayVars == <<tokensFile, uploadsDir, bucket, tempDir, driveFiles, passes,
               relayMode, driveReady, driveFolderId, folders>>

\* the value handed to validateToken, where it came from, and the answer
shapeVars == <<presented, origin, verdict>>

quotaVars == <<user_subscriptions, usage_tracking, usageCheck, admissions>>

Reqs == 1..MaxReq

(* ---------------- document store (googleCloudDatabase.js) ---------------- *)

\* The document createToken adds; its id is its position in the collection.
createToken(userId, token, expiresAt) ==
  Append(tokens, [user_id |-> userId, token |-> token,
                  max_uploads |-> DefaultMaxUploads, currentUploads |-> 0,
                  expires_at |-> expiresAt, active |-> TRUE])

\* a plausible slip: the 'active' filter is left out of the query
getTokenByValueAnyState(token) ==
  IF \E k \in 1..Len(tokens) : tokens[k].token = token
  THEN CHOOSE k \in 1..Len(tokens) : tokens[k].token = token
  ELSE Null

\* where('token','==',token).where('active','==',true).limit(1); 0 when empty.
getTokenByValue(token) ==
  IF \E k \in 1..Len(tokens) : tokens[k].token = token /\ tokens[k].active
  THEN CHOOSE k \in 1..Len(tokens) : tokens[k].token = token /\ tokens[k].active
  ELSE Null

\* a plausible slip: a second record carrying the same originalName is
\* taken for a duplicate and dropped
createUploadDocsDedup(tokenId, originalName, filename) ==
  IF \E k \in 1..Len(uploads) : uploads[k].originalName = originalName
  THEN uploads
  ELSE Append(uploads, [tokenId |-> tokenId, originalName |-> originalName,
                        filename |-> filename, status |-> "pending"])

\* The upload document createUpload adds.  The parameters are bound by
\* position: the route passes (tokenData.user_id, token, file.filename, ...)
\* to createUpload(tokenId, originalName, filename, ...).
createUploadDocs(tokenId, originalName, filename) ==
  Append(uploads, [tokenId |-> tokenId, originalName |-> originalName,
                   filename |-> filename, status |-> "pending"])

\* "Update token's current upload count": the token is looked up by the value
\* of createUpload's first parameter and its counter is read, then written.
createUploadTokens(tokenId) ==
  LET k == getTokenByValue(tokenId)
  IN  IF k # Null
      THEN [tokens EXCEPT ![k].currentUploads = tokens[k].currentUploads + 1]
      ELSE tokens

\* Not in the repository's database classes: the upload records admitted
\* under a token string (the route hands that string to createUpload as its
\* second argument).
getUploadsByToken(token) ==
  SelectSeq(uploads, LAMBDA u : u.originalName = token)

\* Not in the repository's database classes: the live token with this id.
getTokenById(tokenId) ==
  IF tokenId \in 1..Len(tokens) /\ tokens[tokenId].active THEN tokenId ELSE Null

\* Not in the repository's database classes.
updateTokenExpiration(tokenId, newExpirationDate) ==
  [tokens EXCEPT ![tokenId].expires_at = newExpirationDate]

\* Not in the repository's database classes: a deleted token is no longer
\* found by any lookup.
deleteToken(tokenId) ==
  [tokens EXCEPT ![tokenId].active = FALSE]

(* ---------------- requests ---------------- *)

IdleReq == [pc |-> "idle", token |-> <<>>, n |-> 0, tokenData |-> Null,
            totalUploads |-> 0, i |-> 0, status |-> 0]

\* multer's generated name of the i-th file of request r
Filename(r, i) == <<r, i>>
Files(r) == { Filename(r, i) : i \in 1..reqs[r].n }
\* the sum of file.size over req.files
BatchBytes(r) == reqs[r].n * FileBytes

\* a plausible slip: a day of grace after the expiry
ExpiredWithGrace(expires_at) == expires_at # Null /\ now > expires_at + 1

\* tokenData.expires_at && new Date() > new Date(tokenData.expires_at)
Expired(expires_at) == expires_at # Null /\ now > expires_at

\* expiresIn ? new Date(Date.now() + expiresIn * DAY) : null
ExpirationDate(expiresIn) == IF expiresIn # 0 THEN now + expiresIn ELSE Null

(* ---------------- subscriptions and usage (SQLite Database class) -------- *)

BytesPerGB == 1024 * 1024 * 1024

\* initializeDefaultPlans: Free Trial, Photo Plan, Media Plan
subscription_plans ==
  << [max_storage_gb |-> 1, max_files |-> 10],
     [max_storage_gb |-> 5, max_files |-> Null],
     [max_storage_gb |-> 15, max_files |-> Null] >>

\* SELECT us.*, sp.* ... WHERE us.user_id = ? AND us.status = 'active'
\* ORDER BY us.created_at DESC LIMIT 1: the id of the newest active row.
getUserSubscription(userId) ==
  LET active == { k \in 1..Len(user_subscriptions) :
                    /\ user_subscriptions[k].user_id = userId
                    /\ user_subscriptions[k].status = "active" }
  IN  IF active = {} THEN Null
      ELSE CHOOSE k \in active : \A j \in active : j <= k

\* SELECT ut.file_count, ut.storage_used_gb ... WHERE user_id = ? AND
\* subscription_id = ?: db.get answers the first matching row.
UsageRow(userId, subscriptionId) ==
  LET rows == { k \in 1..Len(usage_tracking) :
                  /\ usage_tracking[k].user_id = userId
                  /\ usage_tracking[k].subscription_id = subscriptionId }
  IN  IF rows = {} THEN Null
      ELSE CHOOSE k \in rows : \A j \in rows : k <= j

\* a plausible slip: only whole gigabytes are compared
ExceedsWholeGB(bytes, gb) == bytes \div BytesPerGB > gb

\* bytes / 2^30 > gb.  storage_used_gb holds a whole number of bytes divided
\* by 2^30, which a double represents exactly; the model keeps the bytes.
ExceedsGB(bytes, gb) ==
  \/ bytes \div BytesPerGB > gb
  \/ bytes \div BytesPerGB = gb /\ bytes % BytesPerGB > 0

checkUsageLimits(userId, fileSize) ==
  LET s == getUserSubscription(userId)
  IN  IF s = Null
      THEN [allowed |-> FALSE, reason |-> "No active subscription"]
      ELSE
      LET subscription == user_subscriptions[s]
          plan == subscription_plans[subscription.plan_id]
          u == UsageRow(userId, s)
          currentFiles == IF u # Null THEN usage_tracking[u].file_count ELSE 0
          currentStorage == IF u # Null THEN usage_tracking[u].storage_used ELSE 0
          totalStorage == currentStorage + fileSize
      IN  IF now > subscription.current_period_end
          THEN [allowed |-> FALSE, reason |-> "Subscription expired"]
          ELSE IF plan.max_files # Null /\ currentFiles >= plan.max_files
          THEN [allowed |-> FALSE, reason |-> "File limit exceeded"]
          ELSE IF ExceedsGB(totalStorage, plan.max_storage_gb)
          THEN [allowed |-> FALSE, reason |-> "Storage limit exceeded"]
          ELSE [allowed |-> TRUE,
                usage |-> [currentFiles |-> currentFiles,
                           currentStorage |-> currentStorage,
                           maxFiles |-> plan.max_files,
                           maxStorageGB |-> plan.max_storage_gb]]

\* a plausible slip: the increment is applied only while it keeps the usage
\* within the plan's storage
updateUsageTrackingIfUnder(userId, fileSize) ==
  LET s == getUserSubscription(userId)
  IN  [k \in 1..Len(usage_tracking) |->
         IF /\ usage_tracking[k].user_id = userId
            /\ usage_tracking[k].subscription_id = s
            /\ ~ExceedsGB(usage_tracking[k].storage_used + fileSize,
                          subscription_plans[user_subscriptions[s].plan_id].max_storage_gb)
         THEN [usage_tracking[k] EXCEPT !.file_count = @ + 1,
                                        !.storage_used = @ + fileSize]
         ELSE usage_tracking[k]]

\* a plausible slip: the added size is cut to the four decimals of the
\* column's declared type DECIMAL(10,4), i.e. to whole ten-thousandths of a GB
updateUsageTrackingDecimal4(userId, fileSize) ==
  LET s == getUserSubscription(userId)
      unit == BytesPerGB \div 10000
  IN  [k \in 1..Len(usage_tracking) |->
         IF usage_tracking[k].user_id = userId /\ usage_tracking[k].subscription_id = s
         THEN [usage_tracking[k] EXCEPT !.file_count = @ + 1,
                                        !.storage_used = @ + (fileSize \div unit) * unit]
         ELSE usage_tracking[k]]

\* UPDATE usage_tracking SET file_count = file_count + 1,
\* storage_used_gb = storage_used_gb + ? WHERE user_id = ? AND subscription_id = ?
updateUsageTracking(userId, fileSize) ==
  LET s == getUserSubscription(userId)
  IN  [k \in 1..Len(usage_tracking) |->
         IF usage_tracking[k].user_id = userId /\ usage_tracking[k].subscription_id = s
         THEN [usage_tracking[k] EXCEPT !.file_count = @ + 1,
                                        !.storage_used = @ + fileSize]
         ELSE usage_tracking[k]]

\* no checkUsageLimits call has answered yet
NoCheck == [allowed |-> FALSE, reason |-> "none"]

\* userCache.get(cacheKey) of a key that is not in the map
NoEntry == [present |-> FALSE, loadedAt |-> 0, timestamp |-> 0]
\* autoLogin has not set req.user yet
NotServed == [user |-> <<>>, fromCache |-> FALSE, loadedAt |-> 0, at |-> 0]

\* a call of createUserSubscription that has not been made
IdleCheckout == [pc |-> "idle", userId |-> <<>>, planId |-> 0, subscriptionId |-> Null]

\* nobody is logged in, the cache is empty and no checkout is under way
NoCache ==
  /\ userCache = [u \in Users |-> NoEntry]
  /\ session = [u \in Users |-> FALSE]
  /\ served = NotServed
  /\ checkouts = [c \in 1..MaxCheckouts |-> IdleCheckout]

\* a firing of the worker's timer that has not happened yet
IdlePass == [pc |-> "idle", tokens |-> <<>>, i |-> 0, processed |-> 0, failed |-> 0,
             attempts |-> 0, candidates |-> 0, adapterFailed |-> 0,
             overlapped |-> FALSE, last |-> [rec |-> 0, outcome |-> "none"]]

\* no worker runs and tokens.json is the `{}` the server writes at start
NoRelay ==
  /\ tokensFile = <<>>
  /\ uploadsDir = {}
  /\ bucket = {}
  /\ tempDir = {}
  /\ driveFiles = <<>>
  /\ passes = [p \in 1..MaxPasses |-> IdlePass]
  /\ relayMode = "local"
  /\ driveReady = FALSE
  /\ driveFolderId = FALSE
  /\ folders = 0

\* the value was handed in as it is
Given == [kind |-> "given", by |-> ""]

\* a caller of the quota methods that has not started
IdleAdmission == [pc |-> "idle", userId |-> <<>>, fileSize |-> 0, result |-> NoCheck]

Init ==
  /\ now = 1
  /\ tokens = <<>>
  /\ uploads = <<>>
  /\ disk = {}
  /\ reqs = [r \in Reqs |-> IdleReq]
  /\ user_subscriptions = <<>>
  /\ usage_tracking = <<>>
  /\ usageCheck = NoCheck
  /\ admissions = [c \in 1..MaxAdmits |-> IdleAdmission]
  /\ presented = NotAString("undefined")
  /\ origin = Given
  /\ verdict = "none"
  /\ NoRelay
  /\ NoCache

Tick ==
  /\ now < MaxTime
  /\ now' = now + 1
  /\ UNCHANGED <<checkouts, cacheVars, relayVars, tokens, uploads, disk, reqs, quotaVars, shapeVars>>

(* ---------------- owner routes ---------------- *)

\* POST /api/tokens (and each element of POST /api/tokens/bulk-create)
PostTokens(u, rnd, sig, expiresIn) ==
  /\ Len(tokens) < MaxTokens
  \* the random identifiers are fresh; which fresh value is drawn does not
  \* matter, so they are taken in order
  /\ rnd = Repeat(ByteSample[Len(tokens) + 1], 32)
  /\ tokens' = createToken(u, secureToken(rnd, sig), ExpirationDate(expiresIn))
  /\ UNCHANGED <<checkouts, cacheVars, relayVars, now, uploads, disk, reqs, quotaVars, shapeVars>>

\* POST /api/tokens/:tokenId/refresh
PostTokenRefresh(u, tokenId, expiresIn) ==
  /\ getTokenById(tokenId) # Null
  /\ tokens[tokenId].user_id = u
  /\ tokens' = updateTokenExpiration(tokenId, ExpirationDate(expiresIn))
  /\ tokens' # tokens
  /\ UNCHANGED <<checkouts, cacheVars, relayVars, now, uploads, disk, reqs, quotaVars, shapeVars>>

\* DELETE /api/tokens/:tokenId
DeleteTokenRoute(u, tokenId) ==
  /\ getTokenById(tokenId) # Null
  /\ tokens[tokenId].user_id = u
  /\ tokens' = deleteToken(tokenId)
  /\ UNCHANGED <<checkouts, cacheVars, relayVars, now, uploads, disk, reqs, quotaVars, shapeVars>>

(* ---------------- POST /api/upload/:token ---------------- *)

\* upload.array('photos', 50) with diskStorage runs before the route handler:
\* every accepted file of the batch is written to uploads/.
MulterStore(r, token, n) ==
  /\ reqs[r].pc = "idle"
  /\ \A q \in 1..(r - 1) : reqs[q].pc # "idle"
  /\ reqs' = [reqs EXCEPT ![r] = [IdleReq EXCEPT !.pc = "handler",
                                                 !.token = token, !.n = n]]
  /\ disk' = disk \cup { Filename(r, i) : i \in 1..n }
  /\ UNCHANGED <<checkouts, cacheVars, relayVars, now, tokens, uploads, quotaVars, shapeVars>>

\* res.status(code).json(...): the handler's locals end with it
Respond(r, code) == [IdleReq EXCEPT !.pc = "done", !.token = reqs[r].token,
                                    !.n = reqs[r].n, !.status = code]

\* Handler up to the answer of getTokenByValue: format check, empty batch,
\* unknown token, expired token.
UploadLookup(r) ==
  /\ reqs[r].pc = "handler"
  /\ LET req == reqs[r]
         k == getTokenByValue(req.token)
     IN  reqs' = [reqs EXCEPT ![r] =
           IF ~validateToken(Str(req.token)) THEN Respond(r, 400)
           ELSE IF req.n = 0 THEN Respond(r, 400)
           ELSE IF k = Null THEN Respond(r, 404)
           ELSE IF Expired(tokens[k].expires_at) THEN Respond(r, 410)
           ELSE [req EXCEPT !.pc = "count", !.tokenData = tokens[k]]]
  /\ UNCHANGED <<checkouts, cacheVars, relayVars, now, tokens, uploads, disk, quotaVars, shapeVars>>

\* a plausible slip: only the records already stored are counted
TotalUploadsExistingOnly(existingUploads, newUploadCount) == Len(existingUploads)

\* totalUploads = existingUploads.length + newUploadCount
TotalUploads(existingUploads, newUploadCount) == Len(existingUploads) + newUploadCount

\* Handler from the answer of getUploadsByToken to the limit decision.
UploadCount(r) ==
  /\ reqs[r].pc = "count"
  /\ LET req == reqs[r]
         totalUploads == TotalUploads(getUploadsByToken(req.token), req.n)
     IN  reqs' = [reqs EXCEPT ![r] =
           IF totalUploads > req.tokenData.max_uploads THEN Respond(r, 413)
           ELSE [req EXCEPT !.pc = "create", !.totalUploads = totalUploads, !.i = 1]]
  /\ UNCHANGED <<checkouts, cacheVars, relayVars, now, tokens, uploads, disk, quotaVars, shapeVars>>

\* One iteration of the loop: createUpload resolves; after the last file the
\* handler answers 200.
UploadCreate(r) ==
  /\ reqs[r].pc = "create"
  /\ LET req == reqs[r]
     IN  /\ uploads' = createUploadDocs(req.tokenData.user_id, req.token, Filename(r, req.i))
         /\ tokens' = createUploadTokens(req.tokenData.user_id)
         /\ reqs' = [reqs EXCEPT ![r] =
              IF req.i = req.n THEN Respond(r, 200)
              ELSE [req EXCEPT !.i = req.i + 1]]
  /\ UNCHANGED <<checkouts, cacheVars, relayVars, now, disk, quotaVars, shapeVars>>

\* createUpload rejects (the store fails before or after the document was
\* added); the catch block unlinks every file of the batch and answers 500.
UploadCreateThrows(r, added) ==
  /\ reqs[r].pc = "create"
  /\ LET req == reqs[r]
     IN  /\ uploads' = IF added
                       THEN createUploadDocs(req.tokenData.user_id, req.token, Filename(r, req.i))
                       ELSE uploads
         /\ disk' = disk \ Files(r)
         /\ reqs' = [reqs EXCEPT ![r] = Respond(r, 500)]
  /\ UNCHANGED <<checkouts, cacheVars, relayVars, now, tokens, quotaVars, shapeVars>>

Next ==
  \/ Tick
  \/ \E u \in Users, rnd \in RandomBytes, sig \in Digests, e \in 0..MaxExpiresIn :
       PostTokens(u, rnd, sig, e)
  \/ \E u \in Users, k \in 1..MaxTokens, e \in 0..MaxExpiresIn : PostTokenRefresh(u, k, e)
  \/ \E u \in Users, k \in 1..MaxTokens : DeleteTokenRoute(u, k)
  \/ \E r \in Reqs, t \in PresentedStrings, n \in 0..MaxBatch : MulterStore(r, t, n)
  \/ \E r \in Reqs : UploadLookup(r)
  \/ \E r \in Reqs : UploadCount(r)
  \/ \E r \in Reqs : UploadCreate(r)
  \/ \E r \in Reqs, added \in BOOLEAN : UploadCreateThrows(r, added)

Spec == Init /\ [][Next]_vars

(* ---------------- properties of the admission route ---------------- *)

\* the upload documents of the batch of request r
BatchRecords(r) == { k \in 1..Len(uploads) : uploads[k].filename \in Files(r) }

\* the token documents carrying the string request r presented
RowsOf(r) == { k \in 1..Len(tokens) : tokens[k].token = reqs[r].token }

\* request r leaves the format/lookup/expiry stage in this step
LeavesLookup(r) == reqs[r].pc = "handler" /\ reqs'[r].pc # "handler"

C3_CountWithinMax ==
  \A k \in 1..Len(tokens) :
     Len(getUploadsByToken(tokens[k].token)) <= tokens[k].max_uploads

TokenExpired(k) ==
  tokens[k].active /\ tokens[k].expires_at # Null /\ now > tokens[k].expires_at

C7_FormatRejectBeforeStorage ==
  \A r \in Reqs :
     (reqs[r].status = 400 /\ ~validateToken(Str(reqs[r].token)))
     => Files(r) \cap disk = {}

\* C8: after a batch failed part-way (answer 500), every local file of the
\* batch is gone and no upload record of the batch is left pointing at a
\* deleted file.
C8_FailedBatchRolledBack ==
  \A r \in Reqs :
     reqs[r].status = 500
     => /\ Files(r) \cap disk = {}
        /\ \A k \in BatchRecords(r) : uploads[k].filename \in disk

\* C9: a batch is admitted (its first record may be created) only if the
\* quota evaluator allows the sum of its file sizes for the token owner.
C9_QuotaEvaluatedOnAdmit ==
  [][\A r \in Reqs :
       (reqs[r].pc = "count" /\ reqs'[r].pc = "create")
       => checkUsageLimits(reqs[r].tokenData.user_id, BatchBytes(r)).allowed]_vars

(* ---------------- quota evaluation ---------------- *)

\* Sizes handed to the usage methods, in bytes.
FileSizes == {0, 50, 150}

\* Rows createUserSubscription leaves for one user: every row but the newest
\* was cancelled by the call that inserted the next one.
SubscriptionRows(u) ==
  LET Row(p, e, st) == [user_id |-> u, plan_id |-> p, status |-> st,
                        current_period_end |-> e]
      Ends == {1, MaxTime}
  IN  { <<>> }
      \cup { <<Row(p, e, "active")>> : p \in 1..2, e \in Ends }
      \cup { <<Row(1, 1, "cancelled"), Row(p, e, "active")>> : p \in 1..2, e \in Ends }

\* The usage row of the newest subscription, as updateUsageTracking left it,
\* or no row (its insert is fire-and-forget).
UsageRows(u, subs) ==
  IF subs = <<>> THEN { <<>> }
  ELSE { <<>> } \cup
       { << [user_id |-> u, subscription_id |-> Len(subs),
             file_count |-> c, storage_used |-> b] >> :
           c \in {9, 10}, b \in {0, BytesPerGB - 100} }

InitQuota ==
  /\ now = 1
  /\ tokens = <<>>
  /\ uploads = <<>>
  /\ disk = {}
  /\ reqs = [r \in Reqs |-> IdleReq]
  /\ \E u \in Users :
       /\ user_subscriptions \in SubscriptionRows(u)
       /\ usage_tracking \in UsageRows(u, user_subscriptions)
  /\ Len(user_subscriptions) <= MaxSubs
  /\ usageCheck = NoCheck
  /\ admissions = [c \in 1..MaxAdmits |-> IdleAdmission]
  /\ presented = NotAString("undefined")
  /\ origin = Given
  /\ verdict = "none"
  /\ NoRelay
  /\ NoCache

\* A caller awaits db.checkUsageLimits(userId, fileSize).
CheckUsageLimitsCall(u, fileSize) ==
  /\ usageCheck' = checkUsageLimits(u, fileSize)
  /\ usageCheck' # usageCheck
  /\ UNCHANGED <<checkouts, cacheVars, relayVars, now, tokens, uploads, disk, reqs, user_subscriptions,
                 usage_tracking, admissions, shapeVars>>

\* A caller awaits db.updateUsageTracking(userId, fileSize); without an
\* active subscription the promise rejects and nothing is written.
UpdateUsageTrackingCall(u, fileSize) ==
  /\ getUserSubscription(u) # Null
  /\ \A k \in 1..Len(usage_tracking) : usage_tracking[k].file_count < MaxFileCount
  /\ usage_tracking' = updateUsageTracking(u, fileSize)
  /\ usage_tracking' # usage_tracking
  /\ UNCHANGED <<checkouts, cacheVars, relayVars, now, tokens, uploads, disk, reqs, user_subscriptions,
                 usageCheck, admissions, shapeVars>>

NextQuota ==
  \/ Tick
  \/ \E u \in Users, sz \in FileSizes : CheckUsageLimitsCall(u, sz)
  \/ \E u \in Users, sz \in FileSizes \ {0} : UpdateUsageTrackingCall(u, sz)
  \/ \E u \in Users, rnd \in RandomBytes, sig \in Digests : PostTokens(u, rnd, sig, 0)
  \/ \E t \in MintedStrings, n \in 1..MaxBatch : MulterStore(1, t, n)
  \/ UploadLookup(1)
  \/ UploadCount(1)
  \/ UploadCreate(1)
  \/ \E added \in BOOLEAN : UploadCreateThrows(1, added)

SpecQuota == InitQuota /\ [][NextQuota]_vars

\* The decision of a checkUsageLimits answer in the vocabulary of the design:
\* both "No active subscription" and "Subscription expired" say that the user
\* has no subscription in force.
Decision(result) ==
  IF result.allowed
  THEN [allowed |-> TRUE, files |-> result.usage.currentFiles,
        bytes |-> result.usage.currentStorage,
        maxFiles |-> result.usage.maxFiles, maxGB |-> result.usage.maxStorageGB]
  ELSE [allowed |-> FALSE,
        reason |-> CASE result.reason = "No active subscription" -> "NoActiveSubscription"
                     [] result.reason = "Subscription expired" -> "NoActiveSubscription"
                     [] result.reason = "File limit exceeded" -> "FileLimitExceeded"
                     [] result.reason = "Storage limit exceeded" -> "StorageLimitExceeded"
                     [] OTHER -> "?"]

RECURSIVE MoreThanGB(_, _)
\* bytes > gb gigabytes, taking one gigabyte off at a time
MoreThanGB(bytes, gb) ==
  IF gb = 0 THEN bytes > 0
  ELSE IF bytes < BytesPerGB THEN FALSE
  ELSE MoreThanGB(bytes - BytesPerGB, gb - 1)

\* The reference decision, read off the tables: the snapshot is the newest
\* row of the user with status 'active'; usage is the row of that
\* subscription, or nothing used when there is none.
ReferenceDecision(u, fileSize) ==
  LET rows == { k \in 1..Len(user_subscriptions) :
                  user_subscriptions[k].user_id = u /\
                  user_subscriptions[k].status = "active" }
      newest == CHOOSE k \in rows : \A j \in rows : j <= k
      used == { k \in 1..Len(usage_tracking) :
                  usage_tracking[k].user_id = u /\
                  usage_tracking[k].subscription_id = newest }
      row == CHOOSE k \in used : \A j \in used : k <= j
      fileCount == IF used = {} THEN 0 ELSE usage_tracking[row].file_count
      storage == IF used = {} THEN 0 ELSE usage_tracking[row].storage_used
      plan == subscription_plans[user_subscriptions[newest].plan_id]
      over == MoreThanGB(storage + fileSize, plan.max_storage_gb)
  IN  IF rows = {} \/ now > user_subscriptions[newest].current_period_end
      THEN [allowed |-> FALSE, reason |-> "NoActiveSubscription"]
      ELSE IF plan.max_files # Null /\ fileCount >= plan.max_files
      THEN [allowed |-> FALSE, reason |-> "FileLimitExceeded"]
      ELSE IF over
      THEN [allowed |-> FALSE, reason |-> "StorageLimitExceeded"]
      ELSE [allowed |-> TRUE, files |-> fileCount, bytes |-> storage,
            maxFiles |-> plan.max_files, maxGB |-> plan.max_storage_gb]

\* C10: for every subscription snapshot, usage and file size the answer of
\* checkUsageLimits is the decision of the reference algorithm.
C10_MatchesReference ==
  \A u \in Users, sz \in FileSizes :
     Decision(checkUsageLimits(u, sz)) = ReferenceDecision(u, sz)

\* a call has answered "Storage limit exceeded" for a user who is below the
\* file limit and within 100 bytes of the storage limit
C10_Witness ==
  /\ ~usageCheck.allowed
  /\ usageCheck.reason = "Storage limit exceeded"
  /\ \E k \in 1..Len(usage_tracking) :
       usage_tracking[k].storage_used < BytesPerGB

(* ---------------- check, then increment ---------------- *)

\* Sizes of the files the concurrent callers bring, in bytes.
AdmitSizes == {50, 100, 150}

\* A caller awaits db.checkUsageLimits(userId, fileSize) for its file and
\* keeps the answer.
QuotaCheck(c, u, fileSize) ==
  /\ admissions[c].pc = "idle"
  /\ LET result == checkUsageLimits(u, fileSize)
     IN  admissions' = [admissions EXCEPT ![c] =
           [pc |-> IF result.allowed THEN "admitted" ELSE "denied",
            userId |-> u, fileSize |-> fileSize, result |-> result]]
  /\ UNCHANGED <<checkouts, cacheVars, relayVars, now, tokens, uploads, disk, reqs, user_subscriptions,
                 usage_tracking, usageCheck, shapeVars>>

\* The caller whose check allowed the file awaits
\* db.updateUsageTracking(userId, fileSize): the increment follows the check
\* as a second, separate call.
QuotaIncrement(c) ==
  /\ admissions[c].pc = "admitted"
  /\ getUserSubscription(admissions[c].userId) # Null
  /\ usage_tracking' = updateUsageTracking(admissions[c].userId, admissions[c].fileSize)
  /\ admissions' = [admissions EXCEPT ![c].pc = "done"]
  /\ UNCHANGED <<checkouts, cacheVars, relayVars, now, tokens, uploads, disk, reqs, user_subscriptions,
                 usageCheck, shapeVars>>

NextAdmit ==
  \/ Tick
  \/ \E c \in 1..MaxAdmits, u \in Users, sz \in AdmitSizes : QuotaCheck(c, u, sz)
  \/ \E c \in 1..MaxAdmits : QuotaIncrement(c)

SpecAdmit == InitQuota /\ [][NextAdmit]_vars

\* the bytes the plan of subscription row s allows, for the plans of up to
\* one gigabyte (all the boundary cases need)
MaxStorageBytes(s) == subscription_plans[user_subscriptions[s].plan_id].max_storage_gb * BytesPerGB

\* the user's storage stands 100 bytes below the limit of a one-gigabyte plan
\* in force, with the file count below the plan's limit
AtBoundary(u) ==
  LET s == getUserSubscription(u)
      r == UsageRow(u, s)
      plan == subscription_plans[user_subscriptions[s].plan_id]
  IN  /\ s # Null
      /\ now <= user_subscriptions[s].current_period_end
      /\ plan.max_storage_gb = 1
      /\ r # Null
      /\ plan.max_files # Null => usage_tracking[r].file_count < plan.max_files
      /\ usage_tracking[r].storage_used = MaxStorageBytes(s) - 100

BothPassed(c, d) ==
  /\ c # d
  /\ admissions[c].pc = "done" /\ admissions[d].pc = "done"
  /\ admissions[c].userId = admissions[d].userId
  /\ admissions[c].result.usage.currentStorage = admissions[d].result.usage.currentStorage

PartLens == {0, 15, 16, 17, 63, 64, 65}
PartChars == {"a", "z"}
Parts == { Repeat(ch, n) : ch \in PartChars, n \in PartLens }

\* the values handed to validateToken: values that are no strings, and strings
\* of one, two and three parts
ShapeInputs ==
  { NotAString(t) : t \in {"undefined", "null", "number", "object"} }
  \cup { Str(p) : p \in Parts }
  \cup { Str(p \o <<".">> \o q) : p \in Parts, q \in Parts }
  \cup { Str(p \o <<".">> \o q \o <<".">> \o r) : p \in Parts, q \in Parts, r \in Parts }

\* byte strings of randomBytes(32) and of the digest: two byte values, the
\* second from position k on
ShapeByteValues == {0, 9, 171, 255}
ShapeBytes ==
  { [i \in 1..32 |-> IF i < k THEN a ELSE b] : a \in ShapeByteValues, b \in ShapeByteValues, k \in {1, 5} }

\* the characters that replace one character of a minted token; the last is
\* a character outside the basic plane, two UTF-16 code units long
TamperChars == {"0", "a", "z", ".", "U+1F600"}
CodeUnits(ch) == IF ch = "U+1F600" THEN <<"D83D", "DE00">> ELSE <<ch>>

InitShape ==
  /\ now = 1
  /\ tokens = <<>>
  /\ uploads = <<>>
  /\ disk = {}
  /\ reqs = [r \in Reqs |-> IdleReq]
  /\ user_subscriptions = <<>>
  /\ usage_tracking = <<>>
  /\ usageCheck = NoCheck
  /\ admissions = [c \in 1..MaxAdmits |-> IdleAdmission]
  /\ presented \in ShapeInputs
  /\ origin = Given
  /\ verdict = "none"
  /\ NoRelay
  /\ NoCache

\* token creation computes secureToken; the link carries it
MintShape(rnd, sig) ==
  /\ origin = Given /\ verdict = "none"
  /\ presented = NotAString("undefined")
  /\ presented' = Str(secureToken(rnd, sig))
  /\ origin' = [kind |-> "minted", by |-> ""]
  /\ UNCHANGED <<checkouts, cacheVars, relayVars, now, tokens, uploads, disk, reqs, quotaVars, verdict>>

\* someone replaces the character at position i of a segment of the link
TamperShape(i, ch) ==
  /\ origin.kind = "minted" /\ verdict = "none"
  /\ i \in 1..Len(presented.str)
  /\ presented.str[i] # "."
  /\ presented.str[i] # ch
  /\ presented' = Str(SubSeq(presented.str, 1, i - 1) \o CodeUnits(ch)
                      \o SubSeq(presented.str, i + 1, Len(presented.str)))
  /\ origin' = [kind |-> "tampered", by |-> ch]
  /\ UNCHANGED <<checkouts, cacheVars, relayVars, now, tokens, uploads, disk, reqs, quotaVars, verdict>>

\* validateToken(token) answers
ValidateShape ==
  /\ verdict = "none"
  /\ verdict' = IF validateToken(presented) THEN "true" ELSE "false"
  /\ UNCHANGED <<checkouts, cacheVars, relayVars, now, tokens, uploads, disk, reqs, quotaVars, presented, origin>>

NextShape ==
  \/ \E rnd \in ShapeBytes, sig \in ShapeBytes : MintShape(rnd, sig)
  \/ \E i \in 1..81, ch \in TamperChars : TamperShape(i, ch)
  \/ ValidateShape

SpecShape == InitShape /\ [][NextShape]_vars

\* the number of dots of a string
Dots(str) == Cardinality({ i \in 1..Len(str) : str[i] = "." })

IsHex(c) == \E h \in 1..16 : HexChars[h] = c

C14_MintedPasses ==
  origin.kind = "minted"
  => /\ Len(presented.str) = 81
     /\ presented.str[65] = "."
     /\ \A i \in (1..64) \cup (66..81) : IsHex(presented.str[i])
     /\ verdict # "false"

C14_Witness ==
  /\ origin.kind = "minted" /\ verdict = "true"
  /\ presented.str[1] # presented.str[9]

Records == 1..MaxRecords

\* processPendingUploads: `if (!upload.uploadedToDrive)`
PendingLocal(upload) == ~upload.uploadedToDrive

\* a plausible slip: the flag of the record is not looked at
PendingInBucketAnyFlag(upload) == upload.uploadedToBucket

\* processFromBucketToDrive: `if (upload.uploadedToBucket && !upload.uploadedToDrive)`
PendingInBucket(upload) == upload.uploadedToBucket /\ ~upload.uploadedToDrive

\* the test of the relay that runs: GoogleDriveUploader.processPendingUploads
\* over the uploads directory, or the worker's processFromBucketToDrive
Candidate(upload) ==
  IF relayMode = "bucket" THEN PendingInBucket(upload) ELSE PendingLocal(upload)

\* the entries of a tokens object, from entry i on, that the loop will process
CandidatesFrom(tokenData, i) == { j \in i..Len(tokenData) : Candidate(tokenData[j]) }

\* a pass that has read tokens.json and not yet written it back
Running(p) == passes[p].pc \in {"folder", "loop"}

\* tokens.json holds MaxRecords upload entries not yet in Drive; the file of
\* each is where the admission left it, or was removed out of band.
InitRelay ==
  /\ now = 1
  /\ tokens = <<>>
  /\ uploads = <<>>
  /\ disk = {}
  /\ reqs = [r \in Reqs |-> IdleReq]
  /\ user_subscriptions = <<>>
  /\ usage_tracking = <<>>
  /\ usageCheck = NoCheck
  /\ admissions = [c \in 1..MaxAdmits |-> IdleAdmission]
  /\ presented = NotAString("undefined")
  /\ origin = Given
  /\ verdict = "none"
  /\ relayMode \in {"local", "bucket"}
  /\ driveReady \in BOOLEAN
  \* process.env.DRIVE_FOLDER_ID is set, or not
  /\ driveFolderId \in BOOLEAN
  /\ folders = 0
  /\ tokensFile = [j \in Records |->
       [uploadedToBucket |-> (relayMode = "bucket"), uploadedToDrive |-> FALSE,
        uploadedToDriveAt |-> Null]]
  /\ \E present \in SUBSET Records :
       /\ uploadsDir = IF relayMode = "local" THEN present ELSE {}
       /\ bucket = IF relayMode = "bucket" THEN present ELSE {}
  /\ tempDir = {}
  /\ driveFiles = [j \in Records |-> 0]
  /\ passes = [p \in 1..MaxPasses |-> IdlePass]
  /\ NoCache

\* a plausible slip: the pass lists the uploads directory and takes every
\* file it finds there as a pending entry
readUploadsDir ==
  LET n == Cardinality(disk)
      listing == CHOOSE f \in [1..n -> disk] : \A a, b \in 1..n : a # b => f[a] # f[b]
  IN  [k \in 1..n |-> [filename |-> listing[k], uploadedToBucket |-> TRUE,
                        uploadedToDrive |-> FALSE, uploadedToDriveAt |-> Null]]

\* JSON.parse(fs.readFileSync(tokensFile, 'utf8'))
readTokens == tokensFile

\* what a pass keeps once it has returned
Returned(pass, pc) == [pass EXCEPT !.pc = pc, !.tokens = <<>>, !.i = 0]

\* The timer fires (setInterval does not wait for the pass before): without
\* Drive (or the bucket) the pass returns {processed: 0, failed: 0} at once,
\* otherwise it reads tokens.json and goes on to resolve the folder.
processUploads(p) ==
  /\ passes[p].pc = "idle"
  /\ \A q \in 1..(p - 1) : passes[q].pc # "idle"
  /\ passes' = [q \in 1..MaxPasses |->
       IF q = p
       THEN IF ~driveReady
            THEN Returned(IdlePass, "done")
            ELSE [IdlePass EXCEPT !.pc = "folder", !.tokens = readTokens, !.i = 1,
                     !.candidates = Cardinality(CandidatesFrom(readTokens, 1)),
                     !.overlapped = \E o \in 1..MaxPasses : Running(o)]
       ELSE IF driveReady /\ Running(q)
            THEN [passes[q] EXCEPT !.overlapped = TRUE]
            ELSE passes[q]]
  /\ UNCHANGED <<checkouts, cacheVars, now, tokens, uploads, disk, reqs, quotaVars, shapeVars,
                 tokensFile, uploadsDir, bucket, tempDir, driveFiles,
                 relayMode, driveReady, driveFolderId, folders>>

\* a plausible slip: processUploads without its try/catch; the rejection of
\* the timer callback is unhandled and ends the process
AbortedUncaught(pass) == Returned(pass, "crashed")

\* processFromBucketToDrive rethrows the error of createFolder and the catch
\* block of processUploads logs it: the callback returns
Aborted(pass) == Returned(pass, "aborted")

\* `if (!folderId) { folder = await createFolder(folderName) }`: with
\* DRIVE_FOLDER_ID set nothing is called and nothing can fail; otherwise
\* drive.files.create makes a folder or throws.  A failure is thrown out of
\* the pass.  With nothing to process the loop runs through and tokens.json
\* is written back at once.
ResolveFolder(p, ok) ==
  /\ passes[p].pc = "folder"
  /\ driveFolderId => ok
  /\ folders' = IF ok /\ ~driveFolderId THEN folders + 1 ELSE folders
  /\ IF ~ok
     THEN /\ passes' = [passes EXCEPT ![p] =
                         Aborted([@ EXCEPT !.last = [rec |-> 0, outcome |-> "folderFails"]])]
          /\ UNCHANGED tokensFile
     ELSE IF CandidatesFrom(passes[p].tokens, 1) = {}
     THEN /\ passes' = [passes EXCEPT ![p] = Returned(@, "done")]
          /\ tokensFile' = passes[p].tokens
     ELSE /\ passes' = [passes EXCEPT ![p].pc = "loop"]
          /\ UNCHANGED tokensFile
  /\ UNCHANGED <<checkouts, cacheVars, now, tokens, uploads, disk, reqs, quotaVars, shapeVars,
                 uploadsDir, bucket, tempDir, driveFiles, relayMode, driveReady,
                 driveFolderId>>

\* processPendingUploads sets uploadedToDrive after the upload, before the
\* unlink, and also for a file that is not there
MarkedLocal(outcome) == outcome \in {"ok", "unlinkFails", "missing"}

\* a plausible slip: the entry is marked whatever happened, as the other
\* relay does for a missing file
MarkedBucketAlways(outcome) == TRUE

\* processFromBucketToDrive sets uploadedToDrive as the last statement of the
\* try block
MarkedBucket(outcome) == outcome = "ok"

\* what can happen to an entry of processPendingUploads whose file exists
LocalOutcomes == {"ok", "uploadFails", "unlinkFails"}
\* what can happen to an entry of processFromBucketToDrive
BucketOutcomes == {"ok", "downloadFails", "uploadFails", "deleteFails", "unlinkFails"}

\* One iteration of the loop on the next candidate j of the pass, with the
\* outcome of its awaits; after the last candidate tokens.json is written.
RelayStep(p, outcome) ==
  /\ passes[p].pc = "loop"
  /\ LET pass == passes[p]
         todo == CandidatesFrom(pass.tokens, pass.i)
         j == CHOOSE k \in todo : \A l \in todo : k <= l
         local == relayMode = "local"
         source == IF local THEN uploadsDir ELSE bucket
         \* the file went to Drive
         uploaded == IF local THEN outcome \in {"ok", "unlinkFails"}
                     ELSE outcome \in {"ok", "deleteFails", "unlinkFails"}
         \* uploadedToDrive = true
         marked == IF local THEN MarkedLocal(outcome) ELSE MarkedBucket(outcome)
         \* uploadedToDriveAt = new Date()
         stamped == IF local THEN outcome \in {"ok", "unlinkFails"} ELSE outcome = "ok"
         counted == stamped
         caught == IF local THEN outcome # "ok" ELSE outcome # "ok"
         tried == IF local THEN outcome # "missing" ELSE outcome # "downloadFails"
         upload == [pass.tokens[j] EXCEPT
                      !.uploadedToDrive = IF marked THEN TRUE ELSE @,
                      !.uploadedToDriveAt = IF stamped THEN now ELSE @]
         tokenData == [pass.tokens EXCEPT ![j] = upload]
         after == [pass EXCEPT !.tokens = tokenData, !.i = j + 1,
                     !.processed = IF counted THEN @ + 1 ELSE @,
                     !.failed = IF caught THEN @ + 1 ELSE @,
                     !.attempts = IF tried THEN @ + 1 ELSE @,
                     !.adapterFailed = IF outcome = "uploadFails" THEN @ + 1 ELSE @,
                     !.last = [rec |-> j, outcome |-> outcome]]
     IN  /\ IF local
            THEN IF j \in uploadsDir THEN outcome \in LocalOutcomes ELSE outcome = "missing"
            ELSE IF j \in bucket THEN outcome \in BucketOutcomes ELSE outcome = "downloadFails"
         /\ driveFiles' = IF uploaded THEN [driveFiles EXCEPT ![j] = @ + 1] ELSE driveFiles
         /\ uploadsDir' = IF local /\ outcome = "ok" THEN uploadsDir \ {j} ELSE uploadsDir
         /\ bucket' = IF ~local /\ outcome \in {"ok", "unlinkFails"} THEN bucket \ {j} ELSE bucket
         /\ tempDir' = IF local \/ outcome = "downloadFails" THEN tempDir
                       ELSE IF outcome = "ok" THEN tempDir \ {j}
                       ELSE tempDir \cup {j}
         /\ IF CandidatesFrom(tokenData, j + 1) = {}
            THEN /\ passes' = [passes EXCEPT ![p] = Returned(after, "done")]
                 /\ tokensFile' = tokenData
            ELSE /\ passes' = [passes EXCEPT ![p] = after]
                 /\ UNCHANGED tokensFile
  /\ UNCHANGED <<checkouts, cacheVars, now, tokens, uploads, disk, reqs, quotaVars, shapeVars,
                 relayMode, driveReady, driveFolderId, folders>>

\* The worker process ends in the middle of its passes (process.exit on
\* SIGINT or SIGTERM, or a kill): what the passes held in memory is lost and
\* tokens.json is not written.  The worker is started again and its next
\* pass is the one startWorker runs at once.
Crash ==
  /\ \E p \in 1..MaxPasses : Running(p)
  /\ passes' = [p \in 1..MaxPasses |->
                  IF Running(p) THEN Returned(IdlePass, "crashed") ELSE passes[p]]
  /\ UNCHANGED <<checkouts, cacheVars, now, tokens, uploads, disk, reqs, quotaVars, shapeVars,
                 tokensFile, uploadsDir, bucket, tempDir, driveFiles,
                 relayMode, driveReady, driveFolderId, folders>>

RelayOutcomes == LocalOutcomes \cup BucketOutcomes \cup {"missing"}

NextRelay ==
  \/ \E p \in 1..MaxPasses : processUploads(p)
  \/ \E p \in 1..MaxPasses, ok \in BOOLEAN : ResolveFolder(p, ok)
  \/ \E p \in 1..MaxPasses, outcome \in RelayOutcomes : RelayStep(p, outcome)
  \/ Crash

SpecRelay == InitRelay /\ [][NextRelay]_vars

(* ---------------- properties of the relay ---------------- *)

\* pass p processes entry j in this step
Reaches(p, j) ==
  /\ passes[p].pc = "loop"
  /\ passes'[p].last # passes[p].last
  /\ passes'[p].last.rec = j

\* the entry j as pass p holds it after the step, or as it wrote it
EntryAfter(p, j) == IF passes'[p].pc = "loop" THEN passes'[p].tokens[j] ELSE tokensFile'[j]

\* where the relay that runs takes the file of an entry from
SourceFiles == IF relayMode = "local" THEN uploadsDir ELSE bucket

\* C16: an entry of tokens.json that is marked uploadedToDrive is never
\* unmarked again.
C16_StateOnlyForward ==
  [][\A j \in 1..Len(tokensFile) :
       tokensFile[j].uploadedToDrive => tokensFile'[j].uploadedToDrive]_vars

\* C17: no entry marked uploadedToDrive in tokens.json still has its file in
\* the uploads directory, the bucket or the temp directory.
C17_NoLocalCopyOnceDurable ==
  \A j \in 1..Len(tokensFile) :
     tokensFile[j].uploadedToDrive => j \notin (uploadsDir \cup bucket \cup tempDir)

\* C18 as claimed: of two passes run one after the other the second
\* processes nothing and attempts no upload.
C18_SecondPassProcessesNone ==
  \A p \in 1..(MaxPasses - 1) :
     (passes[p].pc = "done" /\ passes[p + 1].pc = "done" /\ driveReady
        /\ ~passes[p].overlapped /\ ~passes[p + 1].overlapped)
     => passes[p + 1].processed = 0 /\ passes[p + 1].attempts = 0

\* C18 as amended: of two passes run one after the other, the first having
\* returned failed = 0, the second finds no candidate, processes nothing and
\* attempts no upload.
C18_SecondPassIdleAfterClean ==
  \A p \in 1..(MaxPasses - 1) :
     (passes[p].pc = "done" /\ passes[p + 1].pc = "done" /\ driveReady
        /\ ~passes[p].overlapped /\ ~passes[p + 1].overlapped
        /\ passes[p].failed = 0)
     => /\ passes[p + 1].processed = 0
        /\ passes[p + 1].attempts = 0
        /\ passes[p + 1].candidates = 0

C18_Witness ==
  /\ passes[1].pc = "done" /\ passes[1].processed = MaxRecords /\ passes[1].failed = 0
  /\ passes[2].pc = "done" /\ ~passes[2].overlapped
  /\ passes[2].processed = 0

\* C19: a failing Drive upload of one entry does not end the pass: the
\* failure is counted, the entry stays unmarked with its file kept, the
\* entries after it are still processed (with one such failure among N
\* candidates the pass returns processed = N - 1, failed = 1), and a later
\* step that finds the adapter healthy uploads and marks the entry.
C19_AdapterFailureIsolated ==
  /\ [](\A p \in 1..MaxPasses :
          (passes[p].pc = "done" /\ passes[p].adapterFailed = passes[p].failed)
          => passes[p].processed = passes[p].candidates - passes[p].failed)
  /\ [][\A p \in 1..MaxPasses, j \in Records :
          /\ (Reaches(p, j) /\ passes'[p].last.outcome = "uploadFails")
             => /\ passes'[p].pc \in {"loop", "done"}
                /\ passes'[p].failed = passes[p].failed + 1
                /\ passes'[p].processed = passes[p].processed
                /\ ~EntryAfter(p, j).uploadedToDrive
                /\ j \in SourceFiles'
                /\ CandidatesFrom(passes[p].tokens, j + 1) # {} => passes'[p].pc = "loop"
          /\ (Reaches(p, j) /\ passes'[p].last.outcome = "ok")
             => /\ EntryAfter(p, j).uploadedToDrive
                /\ driveFiles'[j] = driveFiles[j] + 1
                /\ passes'[p].processed = passes[p].processed + 1]_vars

\* of MaxRecords candidates one failed in the first pass and was migrated by
\* the second
C19_Witness ==
  /\ passes[1].pc = "done" /\ passes[1].candidates = MaxRecords
  /\ passes[1].processed = MaxRecords - 1 /\ passes[1].failed = 1
  /\ passes[1].adapterFailed = 1
  /\ passes[2].pc = "done" /\ ~passes[2].overlapped
  /\ passes[2].processed = 1 /\ passes[2].failed = 0
  /\ \A j \in Records : tokensFile[j].uploadedToDrive /\ driveFiles[j] = 1

\* C20: a pass that reaches a candidate whose file is not there marks the
\* entry uploadedToDrive and counts it as failed.
C20_MissingFileResolved ==
  [][\A p \in 1..MaxPasses, j \in Records :
       (Reaches(p, j) /\ j \notin SourceFiles)
       => /\ passes'[p].failed = passes[p].failed + 1
          /\ EntryAfter(p, j).uploadedToDrive]_vars

\* C28: a pass that has returned a result counted every candidate of the
\* tokens object it read exactly once: processed + failed is their number.
C28_EachCandidateCountedOnce ==
  \A p \in 1..MaxPasses :
     (passes[p].pc = "done" /\ driveReady)
     => passes[p].processed + passes[p].failed = passes[p].candidates

\* C29: every entry of tokens.json marked uploadedToDrive has its
\* uploadedToDriveAt set.
C29_MarkedHasTimestamp ==
  \A j \in 1..Len(tokensFile) :
     tokensFile[j].uploadedToDrive => tokensFile[j].uploadedToDriveAt # Null

\* C22: in the worker at most one pass is in progress at any instant.
C22_PassesNeverOverlap ==
  relayMode = "bucket" => Cardinality({ p \in 1..MaxPasses : Running(p) }) <= 1

\* C23: the pass run after a crash does not take as candidates the entries
\* whose file a crashed pass had uploaded and whose stored copy it had
\* deleted.
C23_RerunSkipsMigrated ==
  \A p \in 1..MaxPasses, q \in 1..MaxPasses :
     (q < p /\ passes[q].pc = "crashed" /\ passes[p].pc = "folder"
        /\ ~passes[p].overlapped)
     => \A j \in Records :
           (driveFiles[j] >= 1 /\ j \notin SourceFiles)
           => ~Candidate(passes[p].tokens[j])

\* C24: over all passes at most one folder is created in Drive.
C24_OneContainerEver == folders <= 1

\* pass p fails to resolve the folder in this step
FolderFails(p) ==
  /\ passes[p].pc = "folder"
  /\ passes'[p].pc # "folder"
  /\ passes'[p].last.outcome = "folderFails"

\* C25: a pass whose folder cannot be resolved ends there: tokens.json, the
\* stored files, the temp directory and Drive are as before, nothing was
\* counted, the error is caught in the timer callback (the pass is aborted,
\* the process lives), and the next firing starts a pass that reads
\* tokens.json anew.
C25_ContainerFailureAbortsPass ==
  /\ [][\A p \in 1..MaxPasses :
          FolderFails(p)
          => /\ passes'[p].pc = "aborted"
             /\ passes'[p].processed = 0 /\ passes'[p].failed = 0
             /\ UNCHANGED <<checkouts, tokensFile, uploadsDir, bucket, tempDir, driveFiles, folders>>
             /\ \A q \in 1..MaxPasses : q # p => passes'[q] = passes[q]]_vars
  /\ [](\A p \in 1..(MaxPasses - 1) :
          (passes[p].last.outcome = "folderFails" /\ passes[p + 1].pc = "idle")
          => ENABLED processUploads(p + 1))
  /\ [][\A p \in 1..(MaxPasses - 1) :
          (passes[p].last.outcome = "folderFails" /\ passes[p + 1].pc = "idle"
             /\ passes'[p + 1].pc # "idle")
          => /\ passes'[p + 1].pc = "folder"
             /\ passes'[p + 1].tokens = tokensFile
             /\ passes'[p + 1].candidates = Cardinality(CandidatesFrom(tokensFile, 1))]_vars

\* the first pass was aborted by the folder, the second one migrated every
\* entry
C25_Witness ==
  /\ passes[1].pc = "aborted" /\ passes[1].last.outcome = "folderFails"
  /\ passes[2].pc = "done" /\ ~passes[2].overlapped
  /\ passes[2].processed = MaxRecords
  /\ \A j \in Records : tokensFile[j].uploadedToDrive

(* ---------------- admission and relay side by side ---------------- *)

\* The server and the worker run next to each other, the worker with Drive
\* and the bucket initialized and DRIVE_FOLDER_ID unset: tokens.json is the
\* `{}` the server writes when the file is not there, the uploads directory
\* and the upload documents are empty.
InitPipeline ==
  /\ now = 1
  /\ tokens = <<>>
  /\ uploads = <<>>
  /\ disk = {}
  /\ reqs = [r \in Reqs |-> IdleReq]
  /\ user_subscriptions = <<>>
  /\ usage_tracking = <<>>
  /\ usageCheck = NoCheck
  /\ admissions = [c \in 1..MaxAdmits |-> IdleAdmission]
  /\ presented = NotAString("undefined")
  /\ origin = Given
  /\ verdict = "none"
  /\ tokensFile = <<>>
  /\ uploadsDir = {}
  /\ bucket = {}
  /\ tempDir = {}
  /\ driveFiles = <<>>
  /\ passes = [p \in 1..MaxPasses |-> IdlePass]
  /\ relayMode \in {"local", "bucket"}
  /\ driveReady = TRUE
  /\ driveFolderId = FALSE
  /\ folders = 0
  /\ NoCache

\* The steps of the upload route and of the worker.  tokens.json is written
\* by the worker alone, so no pass finds an entry in it and the body of the
\* loop is never entered.
NextPipeline ==
  \/ \E u \in Users, rnd \in RandomBytes, sig \in Digests, e \in 0..MaxExpiresIn :
       PostTokens(u, rnd, sig, e)
  \/ \E r \in Reqs, t \in PresentedStrings, n \in 0..MaxBatch : MulterStore(r, t, n)
  \/ \E r \in Reqs : UploadLookup(r)
  \/ \E r \in Reqs : UploadCount(r)
  \/ \E r \in Reqs : UploadCreate(r)
  \/ \E r \in Reqs, added \in BOOLEAN : UploadCreateThrows(r, added)
  \/ \E p \in 1..MaxPasses : processUploads(p)
  \/ \E p \in 1..MaxPasses, ok \in BOOLEAN : ResolveFolder(p, ok)

SpecPipeline == InitPipeline /\ [][NextPipeline]_vars

\* the upload documents written by admissions that answered 200
AdmittedRecords ==
  { k \in 1..Len(uploads) :
      \E r \in Reqs : reqs[r].status = 200 /\ uploads[k].filename \in Files(r) }

\* C21: every upload record of a successful admission is among the
\* candidates of the pass that starts next.
C21_AdmittedBecomeCandidates ==
  [][\A p \in 1..MaxPasses :
       (driveReady /\ passes[p].pc = "idle" /\ passes'[p].pc = "folder")
       => passes'[p].candidates >= Cardinality(AdmittedRecords)]_vars

\* the files a pass will read and delete: those of its candidates
WorkerFiles(p) ==
  { passes[p].tokens[j].filename : j \in CandidatesFrom(passes[p].tokens, 1) }

\* the stored files of the requests whose handler has not answered yet
InFlightFiles ==
  UNION { Files(r) : r \in { q \in Reqs : reqs[q].pc \in {"handler", "count", "create"} } }

CacheHit(cachedUser) == cachedUser.present /\ cachedUser.timestamp > now - CACHE_TTL

\* The autoLogin middleware for a session of user u: the cache as it leaves
\* it.  A hit keeps the entry; otherwise the user is read from the database
\* and cached with the time of the read.
autoLoginCache(u) ==
  IF CacheHit(userCache[u]) THEN userCache
  ELSE [userCache EXCEPT ![u] = [present |-> TRUE, loadedAt |-> now, timestamp |-> now]]

\* req.user as autoLogin sets it: the cached data, or the data just read
autoLoginServed(u) ==
  IF CacheHit(userCache[u])
  THEN [user |-> u, fromCache |-> TRUE, loadedAt |-> userCache[u].loadedAt, at |-> now]
  ELSE [user |-> u, fromCache |-> FALSE, loadedAt |-> now, at |-> now]

CacheTick ==
  /\ now < MaxCacheTime
  /\ now' = now + 1
  /\ UNCHANGED <<checkouts, cacheVars, relayVars, tokens, uploads, disk, reqs, quotaVars, shapeVars>>

\* POST /api/login: the user is read from the database and cached
PostLogin(u) ==
  /\ ~session[u]
  /\ session' = [session EXCEPT ![u] = TRUE]
  /\ userCache' = [userCache EXCEPT ![u] =
                     [present |-> TRUE, loadedAt |-> now, timestamp |-> now]]
  /\ served' = [user |-> u, fromCache |-> FALSE, loadedAt |-> now, at |-> now]
  /\ UNCHANGED <<checkouts, relayVars, now, tokens, uploads, disk, reqs, quotaVars, shapeVars>>

\* POST /api/logout: session.destroy, clearUserCache
PostLogout(u) ==
  /\ session[u]
  /\ session' = [session EXCEPT ![u] = FALSE]
  /\ userCache' = [userCache EXCEPT ![u] = NoEntry]
  /\ served' = NotServed
  /\ UNCHANGED <<checkouts, relayVars, now, tokens, uploads, disk, reqs, quotaVars, shapeVars>>

\* any request of a logged-in user: app.use(autoLogin) runs before the route
AnyRequest(u) ==
  /\ session[u]
  /\ userCache' = autoLoginCache(u)
  /\ served' = autoLoginServed(u)
  /\ served' # served
  /\ UNCHANGED <<checkouts, relayVars, now, tokens, uploads, disk, reqs, quotaVars, shapeVars, session>>

\* POST /api/auth/refresh: after autoLogin the route stamps the entry it
\* finds with Date.now() and keeps its data
PostAuthRefresh(u) ==
  /\ session[u]
  /\ LET cache == autoLoginCache(u)
         cachedUser == cache[u]
     IN  userCache' = IF cachedUser.present
                      THEN [cache EXCEPT ![u].timestamp = now]
                      ELSE cache
  /\ served' = autoLoginServed(u)
  /\ <<userCache', served'>> # <<userCache, served>>
  /\ UNCHANGED <<checkouts, relayVars, now, tokens, uploads, disk, reqs, quotaVars, shapeVars, session>>

\* setInterval(cleanupExpiredSessions, ...): entries past the TTL are dropped
cleanupExpiredSessions ==
  /\ userCache' = [u \in Users |->
       IF userCache[u].present /\ userCache[u].timestamp < now - CACHE_TTL
       THEN NoEntry ELSE userCache[u]]
  /\ userCache' # userCache
  /\ UNCHANGED <<checkouts, relayVars, now, tokens, uploads, disk, reqs, quotaVars, shapeVars,
                 session, served>>

NextCache ==
  \/ CacheTick
  \/ \E u \in Users : PostLogin(u)
  \/ \E u \in Users : PostLogout(u)
  \/ \E u \in Users : AnyRequest(u)
  \/ \E u \in Users : PostAuthRefresh(u)
  \/ cleanupExpiredSessions

SpecCache == Init /\ [][NextCache]_vars

\* C27: the data autoLogin serves from the cache was read from the database
\* at most CACHE_TTL ago.
C27_NoStaleCacheServed ==
  served.fromCache => served.at - served.loadedAt <= CACHE_TTL

(* ---------------- createUserSubscription ---------------- *)

InitSubs ==
  /\ now = 1
  /\ tokens = <<>>
  /\ uploads = <<>>
  /\ disk = {}
  /\ reqs = [r \in Reqs |-> IdleReq]
  /\ user_subscriptions = <<>>
  /\ usage_tracking = <<>>
  /\ usageCheck = NoCheck
  /\ admissions = [c \in 1..MaxAdmits |-> IdleAdmission]
  /\ presented = NotAString("undefined")
  /\ origin = Given
  /\ verdict = "none"
  /\ NoRelay
  /\ NoCache

\* handleCheckoutCompleted (or the registration) calls createUserSubscription
\* and getSubscriptionPlan answers with the plan.
CreateUserSubscription(c, u, planId) ==
  /\ checkouts[c].pc = "idle"
  /\ \A d \in 1..(c - 1) : checkouts[d].pc # "idle"
  /\ checkouts' = [checkouts EXCEPT ![c] =
                     [IdleCheckout EXCEPT !.pc = "update", !.userId = u, !.planId = planId]]
  /\ UNCHANGED <<cacheVars, relayVars, now, tokens, uploads, disk, reqs, quotaVars, shapeVars>>

\* UPDATE user_subscriptions SET status = "cancelled"
\* WHERE user_id = ? AND status = "active"
CancelActive(c) ==
  /\ checkouts[c].pc = "update"
  /\ user_subscriptions' =
       [k \in 1..Len(user_subscriptions) |->
          IF /\ user_subscriptions[k].user_id = checkouts[c].userId
             /\ user_subscriptions[k].status = "active"
          THEN [user_subscriptions[k] EXCEPT !.status = "cancelled"]
          ELSE user_subscriptions[k]]
  /\ checkouts' = [checkouts EXCEPT ![c].pc = "insert"]
  /\ UNCHANGED <<cacheVars, relayVars, now, tokens, uploads, disk, reqs, shapeVars,
                 usage_tracking, usageCheck, admissions>>

\* INSERT INTO user_subscriptions ... 'active'; the callback resolves the
\* promise with this.lastID before the usage row is asked for.  The period
\* ends validity_days from now, past the clock of the model.
InsertSubscription(c) ==
  /\ checkouts[c].pc = "insert"
  /\ user_subscriptions' =
       Append(user_subscriptions,
              [user_id |-> checkouts[c].userId, plan_id |-> checkouts[c].planId,
               status |-> "active", current_period_end |-> MaxTime])
  /\ checkouts' = [checkouts EXCEPT ![c].pc = "usage",
                                    ![c].subscriptionId = Len(user_subscriptions) + 1]
  /\ UNCHANGED <<cacheVars, relayVars, now, tokens, uploads, disk, reqs, shapeVars,
                 usage_tracking, usageCheck, admissions>>

\* usageDb.run(INSERT INTO usage_tracking ...), not awaited by anybody: the
\* row is written, or the statement fails and the error is logged (usageDb
\* is `this` of the insert's callback, the Statement, when it has no .db).
InsertUsage(c, ok) ==
  /\ checkouts[c].pc = "usage"
  /\ usage_tracking' =
       IF ok
       THEN Append(usage_tracking,
                   [user_id |-> checkouts[c].userId,
                    subscription_id |-> checkouts[c].subscriptionId,
                    file_count |-> 0, storage_used |-> 0])
       ELSE usage_tracking
  /\ checkouts' = [checkouts EXCEPT ![c].pc = "done"]
  /\ UNCHANGED <<cacheVars, relayVars, now, tokens, uploads, disk, reqs, shapeVars,
                 user_subscriptions, usageCheck, admissions>>

NextSubs ==
  \/ \E c \in 1..MaxCheckouts, u \in Users, planId \in 1..2 : CreateUserSubscription(c, u, planId)
  \/ \E c \in 1..MaxCheckouts : CancelActive(c)
  \/ \E c \in 1..MaxCheckouts : InsertSubscription(c)
  \/ \E c \in 1..MaxCheckouts, ok \in BOOLEAN : InsertUsage(c, ok)
  \/ \E u \in Users, sz \in FileSizes : CheckUsageLimitsCall(u, sz)

SpecSubs == InitSubs /\ [][NextSubs]_vars

\* the rows of user u with status 'active'
ActiveRows(u) ==
  { k \in 1..Len(user_subscriptions) :
      user_subscriptions[k].user_id = u /\ user_subscriptions[k].status = "active" }

\* C30: a user has at most one active subscription, and once a call of
\* createUserSubscription has resolved the active subscription has its
\* usage_tracking row.
C30_OneActiveWithUsage ==
  \A u \in Users :
     /\ Cardinality(ActiveRows(u)) <= 1
     /\ (\E c \in 1..MaxCheckouts : checkouts[c].userId = u /\ checkouts[c].pc \in {"usage", "done"})
        => UsageRow(u, getUserSubscription(u)) # Null
====
